---- MODULE Spec2Model ----
(***************************************************************************)
(* A model of the two adapter classes of the repository:                   *)
(*   BaseFaissAnn (src/nltkp/modules/indices/faiss/base.py): a wrapper      *)
(*     around a flat (brute-force) vector index, with _fit and query;       *)
(*   BasePooling (src/lightchain/models/encoder/sentence/pooling/base.py):  *)
(*     a dispatcher over the pooling strategies selected at construction.   *)
(* Vector components are small integers, so squared distances and inner     *)
(* products are exact; float32 rounding is not modelled.                    *)
(***************************************************************************)
EXTENDS Integers, Sequences, FiniteSets, TLC

VARIABLES
    index_type,         \* BaseFaissAnn.index_type
    index,              \* BaseFaissAnn.index      (an attribute that may not exist)
    embeddings,         \* BaseFaissAnn.embeddings (an attribute that may not exist)
    lastOp,             \* the last call made on the BaseFaissAnn and how it ended
    lastFit,            \* history: the most recent _fit call, and whether it succeeded
    nfits,              \* history: the number of successful _fit calls, counted up to 2
    pooling_modes,      \* the keyword flags BasePooling was constructed with
    pooling_functions,  \* BasePooling.pooling_functions
    lists,              \* the caller's list objects, by identity
    lastApply,          \* the last apply_pooling call: its arguments, the list before, the return
    ncalls              \* the number of apply_pooling calls made

annVars == <<index_type, index, embeddings, lastOp, lastFit, nfits>>
poolVars == <<pooling_modes, pooling_functions, lists, lastApply, ncalls>>
vars == <<index_type, index, embeddings, lastOp, lastFit, nfits,
          pooling_modes, pooling_functions, lists, lastApply, ncalls>>

----------------------------------------------------------------------------
(* Bounds *)

\* the most rows a fitted matrix has
MaxN == 2
\* the most apply_pooling calls in a run
MaxCalls == 2

\* the vectors that matrices and queries are drawn from, by dimension
Vecs(d) ==
    IF d = 1 THEN {<<1>>, <<2>>}
    ELSE {<<0, 0>>, <<1, 0>>, <<2, 0>>, <<0, 1>>}

Dims == {1, 2}

\* the metrics an instance is constructed with; "COSINE" is not a supported one
IndexTypes == {"L2", "IP", "COSINE"}

----------------------------------------------------------------------------
(* Values: arrays, attributes, the flat index *)

\* an array-like value: its Python type, its number of axes, its row length and its rows;
\* a 1-D array holds its vector as the only row, a 3-D array has a trailing axis of length 1
Array(type, ndim, d, rows) == [type |-> type, ndim |-> ndim, d |-> d, rows |-> rows]

NoArray == Array("none", 0, 0, <<>>)

\* numpy's .shape
Shape(a) ==
    IF a.ndim = 1 THEN <<a.d>>
    ELSE IF a.ndim = 2 THEN <<Len(a.rows), a.d>>
    ELSE <<Len(a.rows), a.d, 1>>

\* isinstance(x, ndarray); a torch Tensor is not an ndarray
IsNdarray(a) == a.type = "ndarray"

\* isinstance(x, Tensor)
IsTensor(a) == a.type = "Tensor"

\* Tensor.cpu().numpy(): the same data as an ndarray
ToNumpy(a) == [a EXCEPT !.type = "ndarray"]

\* ndarray.reshape(1, -1) of a 1-D array
Reshape1(a) == [a EXCEPT !.ndim = 2]

\* an instance attribute that was never assigned: reading it raises AttributeError
AbsentIndex == [state |-> "absent", metric |-> "", d |-> 0, xb |-> <<>>]
AbsentEmbeddings == [state |-> "absent", val |-> NoArray]

\* faiss.IndexFlatL2(d), faiss.IndexFlatIP(d): an empty flat index
IndexFlatL2(d) == [state |-> "set", metric |-> "L2", d |-> d, xb |-> <<>>]
IndexFlatIP(d) == [state |-> "set", metric |-> "IP", d |-> d, xb |-> <<>>]

----------------------------------------------------------------------------
(* The flat index: exact brute-force search, as faiss.IndexFlat does it *)

RECURSIVE SumSqDiff(_, _, _)
SumSqDiff(x, y, i) ==
    IF i > Len(x) THEN 0
    ELSE (x[i] - y[i]) * (x[i] - y[i]) + SumSqDiff(x, y, i + 1)

RECURSIVE SumProd(_, _, _)
SumProd(x, y, i) ==
    IF i > Len(x) THEN 0
    ELSE x[i] * y[i] + SumProd(x, y, i + 1)

\* the squared Euclidean distance of IndexFlatL2
L2sqr(x, y) == SumSqDiff(x, y, 1)

\* the inner product of IndexFlatIP
InnerProduct(x, y) == SumProd(x, y, 1)

\* the value the index of this metric reports for a stored vector
Score(metric, q, y) == IF metric = "L2" THEN L2sqr(q, y) ELSE InnerProduct(q, y)

\* whether value a ranks strictly before value b: smaller distances first under L2,
\* larger inner products first under IP
Better(metric, a, b) == IF metric = "L2" THEN a < b ELSE a > b

\* what fills the slots past the last stored vector: label -1, the worst value
PadLabel == 0 - 1
PadValue(metric) == IF metric = "L2" THEN 1000000 ELSE 0 - 1000000

\* the best candidate left, the lowest position among equals
BestRemaining(metric, xb, q, cand) ==
    CHOOSE i \in cand :
        \A j \in cand :
            /\ ~Better(metric, Score(metric, q, xb[j]), Score(metric, q, xb[i]))
            /\ Score(metric, q, xb[j]) = Score(metric, q, xb[i]) => i <= j

RECURSIVE Select(_, _, _, _, _, _)
Select(metric, xb, q, k, cand, acc) ==
    IF Len(acc.I) = k THEN acc
    ELSE IF cand = {} THEN
        Select(metric, xb, q, k, cand,
               [D |-> Append(acc.D, PadValue(metric)), I |-> Append(acc.I, PadLabel)])
    ELSE
        LET i == BestRemaining(metric, xb, q, cand)
        IN  Select(metric, xb, q, k, cand \ {i},
                   [D |-> Append(acc.D, Score(metric, q, xb[i])),
                    I |-> Append(acc.I, i - 1)])

\* the k best stored vectors for one query vector: values and 0-based labels, best first
TopK(metric, xb, q, k) ==
    Select(metric, xb, q, k, 1..Len(xb), [D |-> <<>>, I |-> <<>>])

\* how a call ends: the exception raised ("none" when it returns), its message,
\* the instance afterwards and, for query, the two result arrays
Outcome(exc, msg, self, D, I) == [exc |-> exc, msg |-> msg, self |-> self, D |-> D, I |-> I]

Raised(self, exc, msg) == Outcome(exc, msg, self, <<>>, <<>>)

Returned(self) == Outcome("none", "", self, <<>>, <<>>)

\* index.add(x): the rows of a 2-D array of the index's dimension are appended to the store
IndexAdd(idx, x) ==
    IF Len(Shape(x)) # 2 THEN [exc |-> "ValueError", msg |-> "unpack", index |-> idx]
    ELSE IF Shape(x)[2] # idx.d THEN [exc |-> "AssertionError", msg |-> "", index |-> idx]
    ELSE [exc |-> "none", msg |-> "", index |-> [idx EXCEPT !.xb = idx.xb \o x.rows]]

\* index.search(x, k): one row of values and one of labels per query row
IndexSearch(idx, x, k) ==
    IF Len(Shape(x)) # 2 THEN [exc |-> "ValueError", msg |-> "unpack", D |-> <<>>, I |-> <<>>]
    ELSE IF Shape(x)[2] # idx.d \/ k <= 0 THEN
        [exc |-> "AssertionError", msg |-> "", D |-> <<>>, I |-> <<>>]
    ELSE
        LET res == [r \in 1..Len(x.rows) |-> TopK(idx.metric, idx.xb, x.rows[r], k)]
        IN  [exc |-> "none", msg |-> "",
             D |-> [r \in 1..Len(x.rows) |-> res[r].D],
             I |-> [r \in 1..Len(x.rows) |-> res[r].I]]

----------------------------------------------------------------------------
(* BaseFaissAnn *)

MsgNotNdarray == "Embeddings must be an ndarray"
MsgInvalidIndexType == "Invalid index type specified, use indexes as 'IP' or 'L2."
MsgNotInitialized == "Index not initialized, please fit the model before querying."
MsgQueryNotNdarray == "Query embedding must be an ndarray."

\* the instance as one value
Self == [index_type |-> index_type, index |-> index, embeddings |-> embeddings]

\* BaseFaissAnn.__init__: index and embeddings are annotated, never assigned
AnnInit(t) == [index_type |-> t, index |-> AbsentIndex, embeddings |-> AbsentEmbeddings]

NewIndexDefaultL2(self, d) ==
    IF self.index_type = "IP" THEN [exc |-> "none", msg |-> "", index |-> IndexFlatIP(d)]
    ELSE [exc |-> "none", msg |-> "", index |-> IndexFlatL2(d)]

NewIndexKeepOld(self, d) ==
    IF self.index.state = "set" /\ self.index.d = d
    THEN [exc |-> "none", msg |-> "", index |-> self.index]
    ELSE IF self.index_type = "L2" THEN [exc |-> "none", msg |-> "", index |-> IndexFlatL2(d)]
    ELSE IF self.index_type = "IP" THEN [exc |-> "none", msg |-> "", index |-> IndexFlatIP(d)]
    ELSE [exc |-> "ValueError", msg |-> MsgInvalidIndexType, index |-> self.index]

NewIndexSwapped(self, d) ==
    IF self.index_type = "L2" THEN [exc |-> "none", msg |-> "", index |-> IndexFlatIP(d)]
    ELSE IF self.index_type = "IP" THEN [exc |-> "none", msg |-> "", index |-> IndexFlatL2(d)]
    ELSE [exc |-> "ValueError", msg |-> MsgInvalidIndexType, index |-> self.index]

\* _fit, the choice of the index class by index_type
NewIndex(self, d) ==
    IF self.index_type = "L2" THEN [exc |-> "none", msg |-> "", index |-> IndexFlatL2(d)]
    ELSE IF self.index_type = "IP" THEN [exc |-> "none", msg |-> "", index |-> IndexFlatIP(d)]
    ELSE [exc |-> "ValueError", msg |-> MsgInvalidIndexType, index |-> self.index]

FitNdarrayNoAdd(self, a) ==
    LET s1 == [self EXCEPT !.embeddings = [state |-> "set", val |-> a]]
    IN  IF Len(Shape(a)) < 2 THEN Raised(s1, "IndexError", "tuple index out of range")
        ELSE
            LET made == NewIndex(s1, Shape(a)[2])
            IN  IF made.exc # "none" THEN Raised(s1, made.exc, made.msg)
                ELSE Returned([s1 EXCEPT !.index = made.index])

\* _fit past the type check: embeddings is stored first, then the index is made and filled
FitNdarray(self, a) ==
    LET s1 == [self EXCEPT !.embeddings = [state |-> "set", val |-> a]]
    IN  IF Len(Shape(a)) < 2 THEN Raised(s1, "IndexError", "tuple index out of range")
        ELSE
            LET made == NewIndex(s1, Shape(a)[2])
            IN  IF made.exc # "none" THEN Raised(s1, made.exc, made.msg)
                ELSE
                    LET s2 == [s1 EXCEPT !.index = made.index]
                        added == IndexAdd(s2.index, a)
                    IN  IF added.exc # "none" THEN Raised(s2, added.exc, added.msg)
                        ELSE Returned([s2 EXCEPT !.index = added.index])

_fitCheckLate(self, a) ==
    LET r == FitNdarray(self, a)
    IN  IF ~IsNdarray(a) THEN Raised(r.self, "TypeError", MsgNotNdarray) ELSE r

\* BaseFaissAnn._fit
_fit(self, a) ==
    IF ~IsNdarray(a) THEN Raised(self, "TypeError", MsgNotNdarray)
    ELSE FitNdarray(self, a)

queryNoReshape(self, e, k) ==
    IF self.index.state = "absent" THEN
        Raised(self, "AttributeError", "object has no attribute 'index'")
    ELSE IF ~IsNdarray(e) THEN Raised(self, "TypeError", MsgQueryNotNdarray)
    ELSE
        LET r == IndexSearch(self.index, e, k)
        IN  Outcome(r.exc, r.msg, self, r.D, r.I)

\* BaseFaissAnn.query
query(self, e, k) ==
    IF self.index.state = "absent" THEN
        Raised(self, "AttributeError", "object has no attribute 'index'")
    ELSE IF self.index.state = "none" THEN Raised(self, "ValueError", MsgNotInitialized)
    ELSE IF ~IsNdarray(e) THEN Raised(self, "TypeError", MsgQueryNotNdarray)
    ELSE
        LET e1 == IF IsTensor(e) THEN ToNumpy(e) ELSE e
            e2 == IF e1.ndim = 1 THEN Reshape1(e1) ELSE e1
            r == IndexSearch(self.index, e2, k)
        IN  Outcome(r.exc, r.msg, self, r.D, r.I)

\* the 2-D ndarrays of 0..MaxN rows over a set of vectors of one dimension
Matrices(vs, d) == {Array("ndarray", 2, d, rows) : rows \in UNION {[1..n -> vs] : n \in 0..MaxN}}

\* arguments _fit cannot take: a 1-D and a 3-D ndarray, a list and a Tensor
BadFitArgs ==
    {Array("ndarray", 1, 2, <<<<1, 0>>>>), Array("ndarray", 3, 2, <<<<1, 0>>>>),
     Array("list", 2, 2, <<<<1, 0>>>>), Array("Tensor", 2, 2, <<<<1, 0>>>>)}

\* the arguments of _fit in the life of an instance
FitArgs ==
    Matrices({<<1, 0>>, <<0, 1>>}, 2) \cup {Array("ndarray", 2, 1, <<<<1>>>>)} \cup BadFitArgs

\* the arguments of query in the life of an instance: 1-D ndarrays of either dimension,
\* a 2-row batch, a Tensor and a list
QueryArgs ==
    {Array("ndarray", 1, 2, <<<<1, 0>>>>), Array("ndarray", 1, 1, <<<<1>>>>),
     Array("ndarray", 2, 2, <<<<0, 1>>, <<1, 0>>>>),
     Array("Tensor", 1, 2, <<<<1, 0>>>>), Array("list", 1, 2, <<<<1, 0>>>>)}

\* the matrices and the queries the search is checked on
SearchFitArgs == UNION {Matrices(Vecs(d), d) : d \in Dims}

SearchQueryArgs ==
    UNION {{Array("ndarray", 1, d, <<v>>) : v \in Vecs(d)} : d \in Dims}
    \cup UNION {{Array("ndarray", 2, d, rows) : rows \in [1..2 -> Vecs(d)]} : d \in Dims}

Ks == 1..(MaxN + 1)

Call(op, out, arg, k) ==
    [op |-> op, exc |-> out.exc, msg |-> out.msg, arg |-> arg, k |-> k, D |-> out.D, I |-> out.I]

NoCall == [op |-> "__init__", exc |-> "none", msg |-> "", arg |-> NoArray, k |-> 0,
           D |-> <<>>, I |-> <<>>]

\* a call of _fit(a)
DoFit(a) ==
    \E out \in {_fit(Self, a)} :
        /\ index' = out.self.index
        /\ embeddings' = out.self.embeddings
        /\ lastOp' = Call("_fit", out, a, 0)
        /\ lastFit' = [ok |-> out.exc = "none", val |-> a]
        /\ nfits' = IF out.exc = "none" /\ nfits < 2 THEN nfits + 1 ELSE nfits
        /\ UNCHANGED <<index_type, poolVars>>

\* a call of query(e, k)
DoQuery(e, k) ==
    \E out \in {query(Self, e, k)} :
        /\ index' = out.self.index
        /\ embeddings' = out.self.embeddings
        /\ lastOp' = Call("query", out, e, k)
        /\ UNCHANGED <<index_type, lastFit, nfits, poolVars>>

----------------------------------------------------------------------------
(* BasePooling *)

\* the registry of strategies, in registration order
pooling_funcs ==
    <<"cls_token", "max_tokens", "mean_tokens", "mean_sqrt_len_tokens", "weighted_mean_tokens">>

\* the keyword names a caller passes: the registered ones and one that names no strategy
FlagNames == {pooling_funcs[i] : i \in 1..Len(pooling_funcs)} \cup {"median_tokens"}

\* the keyword arguments: some of the names, each with a boolean
PoolingModes == UNION {[names -> BOOLEAN] : names \in SUBSET FlagNames}

\* the feature bags a caller passes
Features == {"features_a", "features_b"}

ListIds == {"list_1", "list_2"}

\* dict.get(key, default)
Get(modes, key, default) == IF key \in DOMAIN modes THEN modes[key] ELSE default

\* a registered strategy called on a list: it appends its one vector
PoolFunc(name, out, features) == Append(out, <<name, features>>)

\* BasePooling.__init__: the loop over the registry, from its i-th entry on
RECURSIVE SelectFuncs(_, _)
SelectFuncs(modes, i) ==
    IF i > Len(pooling_funcs) THEN <<>>
    ELSE IF Get(modes, pooling_funcs[i], FALSE)
         THEN <<pooling_funcs[i]>> \o SelectFuncs(modes, i + 1)
         ELSE SelectFuncs(modes, i + 1)

RECURSIVE apply_poolingFirstOnly(_, _, _, _)
apply_poolingFirstOnly(fns, out, features, i) ==
    IF i > Len(fns) \/ i > 1 THEN out
    ELSE apply_poolingFirstOnly(fns, PoolFunc(fns[i], out, features), features, i + 1)

\* BasePooling.apply_pooling: the loop over pooling_functions, from its i-th entry on
RECURSIVE apply_pooling(_, _, _, _)
apply_pooling(fns, out, features, i) ==
    IF i > Len(fns) THEN out
    ELSE apply_pooling(fns, PoolFunc(fns[i], out, features), features, i + 1)

NoApply == [list |-> "", features |-> "", before |-> <<>>, ret |-> ""]

\* a call of apply_pooling(output_vectors, features) on the caller's list l
DoApply(l, f) ==
    /\ ncalls < MaxCalls
    /\ lists' = [lists EXCEPT ![l] = apply_pooling(pooling_functions, lists[l], f, 1)]
    /\ lastApply' = [list |-> l, features |-> f, before |-> lists[l], ret |-> l]
    /\ ncalls' = ncalls + 1
    /\ UNCHANGED <<pooling_modes, pooling_functions, annVars>>

----------------------------------------------------------------------------
(* Specifications *)

AnnFresh(t) ==
    /\ index_type = AnnInit(t).index_type
    /\ index = AnnInit(t).index
    /\ embeddings = AnnInit(t).embeddings
    /\ lastOp = NoCall
    /\ lastFit = [ok |-> FALSE, val |-> NoArray]
    /\ nfits = 0

PoolingFresh(modes) ==
    /\ pooling_modes = modes
    /\ pooling_functions = SelectFuncs(modes, 1)
    /\ lists = [l \in ListIds |-> <<>>]
    /\ lastApply = NoApply
    /\ ncalls = 0

\* a BaseFaissAnn constructed with any index_type
Init == (\E t \in IndexTypes : AnnFresh(t)) /\ PoolingFresh(<<>>)

FitStep == \E a \in FitArgs : DoFit(a)

QueryStep == \E e \in QueryArgs : \E k \in Ks : DoQuery(e, k)

Next == FitStep \/ QueryStep

Spec == Init /\ [][Next]_vars

\* a BaseFaissAnn constructed with a supported metric, fitted once and then queried once
InitSearch == (\E t \in {"L2", "IP"} : AnnFresh(t)) /\ PoolingFresh(<<>>)

SearchFitStep == lastOp.op = "__init__" /\ \E a \in SearchFitArgs : DoFit(a)

SearchQueryStep ==
    lastOp.op = "_fit" /\ \E e \in SearchQueryArgs : \E k \in Ks : DoQuery(e, k)

NextSearch == SearchFitStep \/ SearchQueryStep

SpecSearch == InitSearch /\ [][NextSearch]_vars

\* a BasePooling constructed with any keyword flags
InitPooling == AnnFresh("L2") /\ \E modes \in PoolingModes : PoolingFresh(modes)

ApplyStep == \E l \in ListIds : \E f \in Features : DoApply(l, f)

NextPooling == ApplyStep

SpecPooling == InitPooling /\ [][NextPooling]_vars

----------------------------------------------------------------------------
(* Properties *)

\* the last call was query and it returned
QueryReturned == lastOp.op = "query" /\ lastOp.exc = "none"

\* the query vectors of the last call, one per row of the result
QueryRows == lastOp.arg.rows

\* the matrix of the most recent _fit call
Fitted == lastFit.val.rows

\* the last call was a query of k neighbours against a successfully fitted matrix of
\* the query's dimension with at least k rows
QueryWithinFitted ==
    /\ lastOp.op = "query"
    /\ lastFit.ok
    /\ IsNdarray(lastOp.arg)
    /\ lastOp.arg.d = lastFit.val.d
    /\ lastOp.k >= 1
    /\ lastOp.k <= Len(Fitted)

\* C1: query on an instance on which _fit never completed raises the state error
\* "Index not initialized, please fit the model before querying." and returns nothing.
C1_QueryBeforeFitStateError ==
    (lastOp.op = "query" /\ nfits = 0) =>
        /\ lastOp.exc = "ValueError"
        /\ lastOp.msg = MsgNotInitialized
        /\ lastOp.D = <<>>
        /\ lastOp.I = <<>>

\* C2: index and embeddings are both unset, or both set with the index built from
\* exactly the stored embeddings matrix and the instance's metric.
C2_IndexEmbeddingsConsistent ==
    \/ index.state = "absent" /\ embeddings.state = "absent"
    \/ /\ index.state = "set"
       /\ embeddings.state = "set"
       /\ IsNdarray(embeddings.val)
       /\ embeddings.val.ndim = 2
       /\ index.xb = embeddings.val.rows
       /\ index.d = embeddings.val.d
       /\ index.metric = index_type

\* C3: on a fitted instance, query with a Tensor is accepted and returns what query
\* with the equivalent ndarray returns.
C3_TensorQueryAccepted ==
    (lastOp.op = "query" /\ lastFit.ok /\ IsTensor(lastOp.arg)
        /\ lastOp.arg.d = lastFit.val.d) =>
        /\ lastOp.exc = "none"
        /\ lastOp.D = query(Self, ToNumpy(lastOp.arg), lastOp.k).D
        /\ lastOp.I = query(Self, ToNumpy(lastOp.arg), lastOp.k).I

\* C4: _fit with an argument that is not an ndarray raises TypeError, whatever the
\* index_type, and leaves index and embeddings as they were before the call.
C4_FitTypeErrorKeepsState ==
    [][(lastOp'.op = "_fit" /\ ~IsNdarray(lastOp'.arg)) =>
        /\ lastOp'.exc = "TypeError"
        /\ lastOp'.msg = MsgNotNdarray
        /\ index' = index
        /\ embeddings' = embeddings]_vars

\* a failed _fit of a non-ndarray on an instance that has an index and embeddings to keep
C4_Witness ==
    /\ lastOp.op = "_fit"
    /\ ~IsNdarray(lastOp.arg)
    /\ lastOp.exc = "TypeError"
    /\ index.state = "set"
    /\ Len(index.xb) > 0
    /\ embeddings.state = "set"

\* C5: _fit with a 2-D ndarray on an instance whose index_type is neither "L2" nor "IP"
\* raises ValueError and builds no index; construction accepted that index_type.
C5_FitInvalidIndexType ==
    (lastOp.op = "_fit" /\ IsNdarray(lastOp.arg) /\ lastOp.arg.ndim = 2
        /\ index_type \notin {"L2", "IP"}) =>
        /\ lastOp.exc = "ValueError"
        /\ lastOp.msg = MsgInvalidIndexType
        /\ index.state = "absent"

\* an instance constructed with "COSINE" on which _fit of a non-empty matrix was called
C5_Witness ==
    /\ index_type = "COSINE"
    /\ lastOp.op = "_fit"
    /\ IsNdarray(lastOp.arg)
    /\ lastOp.arg.ndim = 2
    /\ Len(lastOp.arg.rows) > 0
    /\ lastOp.exc = "ValueError"

\* C6: after fitting N vectors of dimension D, query with 1 <= k <= N returns distances
\* and indices of shape (n_queries, k), a 1-D query counting as one query, and every
\* index is in 0..N-1.
C6_ResultShape ==
    QueryWithinFitted =>
        /\ lastOp.exc = "none"
        /\ Len(lastOp.D) = (IF lastOp.arg.ndim = 1 THEN 1 ELSE Len(QueryRows))
        /\ Len(lastOp.I) = Len(lastOp.D)
        /\ \A r \in 1..Len(lastOp.D) :
            /\ Len(lastOp.D[r]) = lastOp.k
            /\ Len(lastOp.I[r]) = lastOp.k
            /\ \A j \in 1..lastOp.k : lastOp.I[r][j] \in 0..(Len(Fitted) - 1)

\* a 1-D query of 2 neighbours against a fitted matrix of 2 rows
C6_Witness ==
    /\ QueryWithinFitted
    /\ lastOp.arg.ndim = 1
    /\ lastOp.k = 2
    /\ Len(lastOp.I) = 1

\* the value of fitted row i (1-based) for query row r under the instance's metric
ValueOf(r, i) == Score(index_type, QueryRows[r], Fitted[i])

\* C7: with k <= N, each result row is ordered best first under the metric chosen at
\* construction (L2: distances non-decreasing, IP: scores non-increasing), the reported
\* values are those of the reported rows, and no fitted vector left out is strictly
\* better than the last result.
C7_BestFirst ==
    (QueryWithinFitted /\ lastOp.exc = "none") =>
        \A r \in 1..Len(lastOp.D) :
            /\ \A j \in 1..lastOp.k :
                /\ lastOp.I[r][j] \in 0..(Len(Fitted) - 1)
                /\ lastOp.D[r][j] = ValueOf(r, lastOp.I[r][j] + 1)
            /\ \A j \in 1..(lastOp.k - 1) :
                IF index_type = "L2" THEN lastOp.D[r][j] <= lastOp.D[r][j + 1]
                ELSE lastOp.D[r][j] >= lastOp.D[r][j + 1]
            /\ \A i \in 1..Len(Fitted) :
                (\A j \in 1..lastOp.k : lastOp.I[r][j] # i - 1) =>
                    IF index_type = "L2" THEN ValueOf(r, i) >= lastOp.D[r][lastOp.k]
                    ELSE ValueOf(r, i) <= lastOp.D[r][lastOp.k]

\* an IP query of 2 neighbours whose two results differ in score, with a vector left out
C7_Witness ==
    /\ QueryWithinFitted
    /\ lastOp.exc = "none"
    /\ index_type = "IP"
    /\ lastOp.k = 2
    /\ lastOp.D[1][1] > lastOp.D[1][2]

\* the last call was a returned 1-D query with a vector that is a row of the fitted matrix
SelfQuery ==
    /\ QueryWithinFitted
    /\ lastOp.exc = "none"
    /\ lastOp.arg.ndim = 1
    /\ \E i \in 1..Len(Fitted) : Fitted[i] = QueryRows[1]

IsActive(name) == name \in DOMAIN pooling_modes /\ pooling_modes[name]

ActiveStrategies == SelectSeq(pooling_funcs, IsActive)

AnsweredFrom(rows, metric, c) ==
    \A r \in 1..Len(c.D) :
        LET real == {j \in 1..c.k : c.I[r][j] # PadLabel}
        IN  /\ Len(c.I[r]) = c.k
            /\ Cardinality(real) = (IF c.k <= Len(rows) THEN c.k ELSE Len(rows))
            /\ \A j \in real :
                /\ c.I[r][j] \in 0..(Len(rows) - 1)
                /\ c.D[r][j] = Score(metric, c.arg.rows[r], rows[c.I[r][j] + 1])
            /\ \A j1, j2 \in real : c.I[r][j1] = c.I[r][j2] => j1 = j2

\* C10: after two successful _fit calls, a query made before any further _fit call is
\* answered from the matrix of the last one alone, which is the stored embeddings; and
\* no query call changes the index or the stored embeddings.
C10_RefitOverwrites ==
    [][/\ lastOp'.op = "query" => (index' = index /\ embeddings' = embeddings)
       /\ (lastOp'.op = "query" /\ lastOp'.exc = "none" /\ lastFit'.ok /\ nfits' >= 2) =>
            /\ embeddings'.val = lastFit'.val
            /\ AnsweredFrom(lastFit'.val.rows, index_type', lastOp')]_vars

\* a query for more neighbours than the second fitted matrix has rows
C10_Witness ==
    /\ nfits = 2
    /\ QueryReturned
    /\ lastFit.ok
    /\ Len(Fitted) >= 1
    /\ lastOp.k > Len(Fitted)

====
